---- MODULE Spec2Model ----
(***************************************************************************)
(* CommuniCraft: the inventory ledger of project materials and tools.      *)
(*                                                                         *)
(* The state is the content of the tables material, tool, project,         *)
(* project_material and project_tool.  Every action is one HTTP request    *)
(* handled by one route of routes/project_material.js or                   *)
(* routes/project_tool.js, run from its first line to its response.        *)
(***************************************************************************)
EXTENDS Integers, Sequences, FiniteSets, TLC

\* ---------------------------------------------------------------- bounds
\* Primary keys 1..NumProjects exist; the id NumProjects + 1 is never created.
NumProjects == 2
\* Primary keys 1..NumResources exist in material and in tool.
NumResources == 2
\* The initial stock of the materials and tools is drawn from 0..MaxStock.
MaxStock == 2
\* quantityUsed of a request body is drawn from -1..MaxQty.
MaxQty == 2
\* Number of requests in one behaviour.
MaxRequests == 2
\* Titles 1..NumTitles are given to projects; one creator owns every project.
NumTitles == 1
\* The table task hands out the ids 1..MaxTasks.
MaxTasks == 2
\* Primary keys 1..NumUsers exist in the table user.
NumUsers == 2

ProjectIDs == 1..(NumProjects + 1)
ResourceIDs == 1..(NumResources + 1)
Quantities == (0 - 1)..MaxQty
Titles == 1..NumTitles
\* A request body's title; 0 stands for a body without title.
BodyTitles == 0..NumTitles
TaskIDs == 1..(MaxTasks + 1)
UserIDs == 1..(NumUsers + 1)
\* DataTypes.ENUM('pending', 'in progress', 'completed')
TaskStatuses == {"pending", "in progress", "completed"}
\* A request body's status, "undefined" when the body has none.
BodyStatuses == TaskStatuses \cup {"undefined"}
\* A request body's isCompleted, "undefined" when the body has none.
BodyFlags == {"undefined", "false", "true"}

VARIABLES
    project,          \* table project: projectID -> row
    material,         \* table material: materialID -> row
    tool,             \* table tool: toolID -> row
    projectMaterial,  \* table project_material: sequence of rows, in insertion order
    projectTool,      \* table project_tool: sequence of rows, in insertion order
    last,             \* the route that served the last request and the response it sent
    initial,          \* history: the stock every material and tool started with
    released,         \* history: total quantityUsed of the bindings destroyed, per resource
    nreq,             \* number of requests served
    task,             \* table task: taskID -> row
    taskAutoIncrement,\* the last taskID the table task handed out
    request           \* the requests being served one await at a time, with their locals

vars == <<project, material, tool, projectMaterial, projectTool, last, initial, released, nreq,
          task, taskAutoIncrement, request>>

tables == <<project, material, tool, projectMaterial, projectTool>>

\* ------------------------------------------------------------ sequences
\* Sum of quantityUsed over a sequence of binding rows.
RECURSIVE SumUsed(_)
SumUsed(rows) == IF rows = <<>> THEN 0 ELSE Head(rows).quantityUsed + SumUsed(Tail(rows))

\* Variant: the row is left in the table.
RemoveAtNone(s, i) == s

\* row.destroy(): the table without its i-th row.
RemoveAt(s, i) == SubSeq(s, 1, i - 1) \o SubSeq(s, i + 1, Len(s))

\* Math.abs
Abs(x) == IF x < 0 THEN 0 - x ELSE x

\* ------------------------------------------------------------- lookups
\* Variant: findByPk never returns null.
ProjectFoundAlways(projectID) == TRUE

\* Project.findByPk, Material.findByPk, Tool.findByPk: null when the key is absent.
ProjectFound(projectID) == projectID \in DOMAIN project
MaterialFound(materialID) == materialID \in DOMAIN material
ToolFound(toolID) == toolID \in DOMAIN tool

\* Variant: the where clause compares materialID with the project's id.
FindOneProjectMaterialWrongKey(projectID, materialID) ==
    {i \in DOMAIN projectMaterial :
        /\ projectMaterial[i].projectID = projectID
        /\ projectMaterial[i].materialID = projectID}

\* ProjectMaterial.findOne({where: {projectID, materialID}}): the rows the query
\* may return (no ORDER BY, so any matching row); empty when it returns null.
FindOneProjectMaterial(projectID, materialID) ==
    {i \in DOMAIN projectMaterial :
        /\ projectMaterial[i].projectID = projectID
        /\ projectMaterial[i].materialID = materialID}

\* Variant: the where clause leaves out projectID.
FindOneProjectToolAnyProject(projectID, toolID) ==
    {i \in DOMAIN projectTool : projectTool[i].toolID = toolID}

\* ProjectTool.findOne({where: {projectID, toolID}})
FindOneProjectTool(projectID, toolID) ==
    {i \in DOMAIN projectTool :
        /\ projectTool[i].projectID = projectID
        /\ projectTool[i].toolID = toolID}

\* ------------------------------------------------------------ responses
\* res.status(status).json(body) of the route op of the router kind; body is the
\* set holding the binding row sent back, empty when only a message is sent.
Respond(op, kind, status, body) ==
    /\ last' = [op |-> op, kind |-> kind, status |-> status, body |-> body]
    /\ nreq' = nreq + 1

\* ---------------------------------------------------------------- Init
Init ==
    /\ project = [p \in 1..NumProjects |-> [isCompleted |-> FALSE]]
    /\ \E stock \in 0..MaxStock :
          /\ material = [m \in 1..NumResources |-> [quantity |-> stock]]
          /\ tool = [t \in 1..NumResources |-> [quantity |-> stock]]
    /\ projectMaterial = <<>>
    /\ projectTool = <<>>
    /\ last = [op |-> "none", kind |-> "none", status |-> 0, body |-> {}]
    /\ initial = [material |-> [m \in DOMAIN material |-> material[m].quantity],
                  tool |-> [t \in DOMAIN tool |-> tool[t].quantity]]
    /\ released = [material |-> [m \in DOMAIN material |-> 0],
                   tool |-> [t \in DOMAIN tool |-> 0]]
    /\ nreq = 0
    /\ task = <<>>
    /\ taskAutoIncrement = 0
    /\ request = <<>>

\* ------------------------------------------- routes/project_material.js
\* Variant: the guard written with < instead of <=.
MaterialAddInvalidQuantityStrict(quantityUsed) == quantityUsed < 0

\* if (quantityUsed <= 0) return 400
MaterialAddInvalidQuantity(quantityUsed) == quantityUsed <= 0

\* Variant: the existing binding is overwritten with the requested quantity.
MaterialAddOverwrittenUsed(used, quantityUsed) == quantityUsed

\* const updatedQuantity = projectMaterial.quantityUsed + quantityUsed
MaterialAddUpdatedUsed(used, quantityUsed) == used + quantityUsed

\* Variant: the stock is written back without the decrement.
MaterialAddKeptQuantity(quantity, quantityUsed) == quantity

\* const updatedQuantity = material.quantity - quantityUsed
MaterialAddUpdatedQuantity(quantity, quantityUsed) == quantity - quantityUsed

\* POST /:projectID/materials/add/:materialID
MaterialAdd(projectID, materialID, quantityUsed) ==
    /\ nreq < MaxRequests
    /\ IF ~ProjectFound(projectID) \/ ~MaterialFound(materialID)
       THEN /\ Respond("add", "material", 404, {})
            /\ UNCHANGED <<tables, initial, released>>
       ELSE IF MaterialAddInvalidQuantity(quantityUsed)
       THEN /\ Respond("add", "material", 400, {})
            /\ UNCHANGED <<tables, initial, released>>
       ELSE /\ LET found == FindOneProjectMaterial(projectID, materialID)
               IN  IF found = {}
                   THEN LET row == [projectID |-> projectID, materialID |-> materialID,
                                    quantityUsed |-> quantityUsed]
                        IN  /\ projectMaterial' = Append(projectMaterial, row)
                            /\ Respond("add", "material", 200, {row})
                   ELSE \E i \in found :
                            LET row == [projectMaterial[i] EXCEPT !.quantityUsed =
                                           MaterialAddUpdatedUsed(@, quantityUsed)]
                            IN  /\ projectMaterial' = [projectMaterial EXCEPT ![i] = row]
                                /\ Respond("add", "material", 200, {row})
            /\ material' = [material EXCEPT ![materialID].quantity =
                               MaterialAddUpdatedQuantity(@, quantityUsed)]
            /\ UNCHANGED <<project, tool, projectTool, initial, released>>

\* Variant: Math.abs left out.
MaterialEditReturnedSigned(quantity, quantityDifference) == quantity + quantityDifference

\* const updatedQuantity = material.quantity + Math.abs(quantityDifference)
MaterialEditReturned(quantity, quantityDifference) == quantity + Abs(quantityDifference)

\* Variant: the comparison with the stock left out.
MaterialEditAvailableUnchecked(quantity, quantityDifference) == quantityDifference > 0

\* else if (quantityDifference > 0 && quantityDifference <= material.quantity)
MaterialEditAvailable(quantity, quantityDifference) ==
    quantityDifference > 0 /\ quantityDifference <= quantity

\* PUT /:projectID/materials/edit/:materialID
MaterialEdit(projectID, materialID, quantityUsed) ==
    /\ nreq < MaxRequests
    /\ LET found == FindOneProjectMaterial(projectID, materialID)
       IN  IF found = {} \/ ~MaterialFound(materialID)
           THEN /\ Respond("edit", "material", 404, {})
                /\ UNCHANGED <<tables, initial, released>>
           ELSE \E i \in found :
                LET quantityDifference == quantityUsed - projectMaterial[i].quantityUsed
                    quantity == material[materialID].quantity
                    row == [projectMaterial[i] EXCEPT !.quantityUsed = quantityUsed]
                IN  IF quantityDifference < 0 \/ MaterialEditAvailable(quantity, quantityDifference)
                    THEN /\ material' = [material EXCEPT ![materialID].quantity =
                                IF quantityDifference < 0
                                THEN MaterialEditReturned(quantity, quantityDifference)
                                ELSE quantity - quantityDifference]
                         /\ projectMaterial' = [projectMaterial EXCEPT ![i] = row]
                         /\ Respond("edit", "material", 200, {row})
                         /\ UNCHANGED <<project, tool, projectTool, initial, released>>
                    ELSE /\ Respond("edit", "material", 400, {})
                         /\ UNCHANGED <<tables, initial, released>>

\* DELETE /:projectID/materials/delete/:materialID
MaterialDelete(projectID, materialID) ==
    /\ nreq < MaxRequests
    /\ LET found == FindOneProjectMaterial(projectID, materialID)
       IN  IF found = {}
           THEN /\ Respond("delete", "material", 404, {})
                /\ UNCHANGED <<tables, initial, released>>
           ELSE \E i \in found :
                /\ projectMaterial' = RemoveAt(projectMaterial, i)
                /\ released' = [released EXCEPT !.material[materialID] =
                                   @ + projectMaterial[i].quantityUsed]
                /\ Respond("delete", "material", 200, {})
                /\ UNCHANGED <<project, material, tool, projectTool, initial>>

\* ----------------------------------------------- routes/project_tool.js
\* if (quantityUsed <= 0) return 400
ToolAddInvalidQuantity(quantityUsed) == quantityUsed <= 0

\* if (quantityUsed > tool.quantity) return 400
ToolAddInsufficient(quantity, quantityUsed) == quantityUsed > quantity

\* POST /:projectID/tools/add/:toolID
ToolAdd(projectID, toolID, quantityUsed) ==
    /\ nreq < MaxRequests
    /\ IF ~ProjectFound(projectID) \/ ~ToolFound(toolID)
       THEN /\ Respond("add", "tool", 404, {})
            /\ UNCHANGED <<tables, initial, released>>
       ELSE IF \/ ToolAddInvalidQuantity(quantityUsed)
               \/ ToolAddInsufficient(tool[toolID].quantity, quantityUsed)
       THEN /\ Respond("add", "tool", 400, {})
            /\ UNCHANGED <<tables, initial, released>>
       ELSE LET row == [projectID |-> projectID, toolID |-> toolID,
                        quantityUsed |-> quantityUsed]
            IN  /\ tool' = [tool EXCEPT ![toolID].quantity = @ - quantityUsed]
                /\ projectTool' = Append(projectTool, row)
                /\ Respond("add", "tool", 200, {row})
                /\ UNCHANGED <<project, material, projectMaterial, initial, released>>

\* Variant: Math.abs left out.
ToolEditReturnedSigned(quantity, quantityDifference) == quantity + quantityDifference

\* const updatedQuantity = tool.quantity + Math.abs(quantityDifference)
ToolEditReturned(quantity, quantityDifference) == quantity + Abs(quantityDifference)

\* else if (quantityDifference > 0 && quantityDifference <= tool.quantity)
ToolEditAvailable(quantity, quantityDifference) ==
    quantityDifference > 0 /\ quantityDifference <= quantity

\* PUT /:projectID/tools/edit/:toolID
ToolEdit(projectID, toolID, quantityUsed) ==
    /\ nreq < MaxRequests
    /\ LET found == FindOneProjectTool(projectID, toolID)
       IN  IF found = {} \/ ~ToolFound(toolID)
           THEN /\ Respond("edit", "tool", 404, {})
                /\ UNCHANGED <<tables, initial, released>>
           ELSE \E i \in found :
                LET quantityDifference == quantityUsed - projectTool[i].quantityUsed
                    quantity == tool[toolID].quantity
                    row == [projectTool[i] EXCEPT !.quantityUsed = quantityUsed]
                IN  IF quantityDifference < 0 \/ ToolEditAvailable(quantity, quantityDifference)
                    THEN /\ tool' = [tool EXCEPT ![toolID].quantity =
                                IF quantityDifference < 0
                                THEN ToolEditReturned(quantity, quantityDifference)
                                ELSE quantity - quantityDifference]
                         /\ projectTool' = [projectTool EXCEPT ![i] = row]
                         /\ Respond("edit", "tool", 200, {row})
                         /\ UNCHANGED <<project, material, projectMaterial, initial, released>>
                    ELSE /\ Respond("edit", "tool", 400, {})
                         /\ UNCHANGED <<tables, initial, released>>

\* DELETE /:projectID/tools/delete/:toolID
ToolDelete(projectID, toolID) ==
    /\ nreq < MaxRequests
    /\ LET found == FindOneProjectTool(projectID, toolID)
       IN  IF found = {}
           THEN /\ Respond("delete", "tool", 404, {})
                /\ UNCHANGED <<tables, initial, released>>
           ELSE \E i \in found :
                /\ projectTool' = RemoveAt(projectTool, i)
                /\ released' = [released EXCEPT !.tool[toolID] =
                                   @ + projectTool[i].quantityUsed]
                /\ Respond("delete", "tool", 200, {})
                /\ UNCHANGED <<project, material, tool, projectMaterial, initial>>

\* ---------------------------------------------------------------- Next
Next ==
    \/ /\ \E p \in ProjectIDs, r \in ResourceIDs, q \in Quantities : MaterialAdd(p, r, q)
       /\ UNCHANGED <<task, taskAutoIncrement, request>>
    \/ /\ \E p \in ProjectIDs, r \in ResourceIDs, q \in Quantities : MaterialEdit(p, r, q)
       /\ UNCHANGED <<task, taskAutoIncrement, request>>
    \/ /\ \E p \in ProjectIDs, r \in ResourceIDs : MaterialDelete(p, r)
       /\ UNCHANGED <<task, taskAutoIncrement, request>>
    \/ /\ \E p \in ProjectIDs, r \in ResourceIDs, q \in Quantities : ToolAdd(p, r, q)
       /\ UNCHANGED <<task, taskAutoIncrement, request>>
    \/ /\ \E p \in ProjectIDs, r \in ResourceIDs, q \in Quantities : ToolEdit(p, r, q)
       /\ UNCHANGED <<task, taskAutoIncrement, request>>
    \/ /\ \E p \in ProjectIDs, r \in ResourceIDs : ToolDelete(p, r)
       /\ UNCHANGED <<task, taskAutoIncrement, request>>

Spec == Init /\ [][Next]_vars

\* ------------------------------------------------------ routes/project.js
\* res.status(status).json({message}) of a project or task route; body holds the
\* id of the project a recompute was asked for, nothing for the other routes.
Reply(op, kind, status, body) ==
    last' = [op |-> op, kind |-> kind, status |-> status, body |-> body]

\* The tables and histories of the inventory ledger.
ledger == <<material, tool, projectMaterial, projectTool, initial, released, nreq, request>>

\* isCompleted: {type: BOOLEAN, allowNull: false, defaultValue: false}
ProjectIsCompleted(isCompleted) == isCompleted = "true"

\* User.findByPk
UserFound(userID) == userID \in 1..NumUsers

\* Variant: the query finds no row.
FindOneProjectByTitleNone(creatorID, title) == {}

\* Project.findOne({where: {creatorID, title}})
FindOneProjectByTitle(creatorID, title) ==
    {p \in DOMAIN project :
        project[p].creatorID = creatorID /\ project[p].title = title}

\* POST /add-project/:creatorID; title 0 stands for a body without title,
\* required says whether description, groupSize, difficulty, category and cost
\* are all in the body.  Project.create rejects a creatorID that is no user
\* (validate isUserExists), which the catch answers with 500.
AddProject(creatorID, title, isCompleted, required) ==
    /\ IF title = 0 \/ ~required
       THEN /\ Reply("add-project", "project", 400, {})
            /\ UNCHANGED project
       ELSE IF FindOneProjectByTitle(creatorID, title) # {}
       THEN /\ Reply("add-project", "project", 409, {})
            /\ UNCHANGED project
       ELSE IF ~UserFound(creatorID)
       THEN /\ Reply("add-project", "project", 500, {})
            /\ UNCHANGED project
       ELSE /\ Len(project) < NumProjects
            /\ project' = Append(project, [title |-> title,
                                           isCompleted |-> ProjectIsCompleted(isCompleted),
                                           creatorID |-> creatorID])
            /\ Reply("add-project", "project", 201, {})
    /\ UNCHANGED <<ledger, task, taskAutoIncrement>>

\* PUT /edit-project/:projectID.  existingProject.projectID is a number and
\* req.params.projectID a string, so !== holds for every project found.
EditProject(projectID, title) ==
    /\ IF ~ProjectFound(projectID)
       THEN /\ Reply("edit-project", "project", 404, {})
            /\ UNCHANGED project
       ELSE IF title # 0 /\ (\E p \in DOMAIN project : project[p].title = title)
       THEN /\ Reply("edit-project", "project", 409, {})
            /\ UNCHANGED project
       ELSE /\ project' = IF title # 0
                          THEN [project EXCEPT ![projectID].title = title]
                          ELSE project
            /\ Reply("edit-project", "project", 200, {})
    /\ UNCHANGED <<ledger, task, taskAutoIncrement>>

\* Variant: the query returns no row.
FindAllTasksNoRows(projectID) == {}

\* Task.findAll({where: {projectID}})
FindAllTasks(projectID) == {t \in DOMAIN task : task[t].projectID = projectID}

\* Variant: some instead of every.
TasksSome(tasks) == \E t \in tasks : task[t].status = "completed"

\* tasks.every(task => task.status === 'completed')
TasksEvery(tasks) == \A t \in tasks : task[t].status = "completed"

\* Variant: the flag is negated instead of computed.
UpdateStatusToggled(projectID) ==
    /\ IF ~ProjectFound(projectID)
       THEN /\ Reply("update-status", "project", 404, {})
            /\ UNCHANGED project
       ELSE /\ project' = [project EXCEPT ![projectID].isCompleted = ~@]
            /\ Reply("update-status", "project", 200, {projectID})
    /\ UNCHANGED <<ledger, task, taskAutoIncrement>>

\* Variant: project.save() left out.
UpdateStatusUnsaved(projectID) ==
    /\ IF ~ProjectFound(projectID)
       THEN /\ Reply("update-status", "project", 404, {})
            /\ UNCHANGED project
       ELSE /\ UNCHANGED project
            /\ Reply("update-status", "project", 200, {projectID})
    /\ UNCHANGED <<ledger, task, taskAutoIncrement>>

\* PUT /update-status/:projectID
UpdateStatus(projectID) ==
    /\ IF ~ProjectFound(projectID)
       THEN /\ Reply("update-status", "project", 404, {})
            /\ UNCHANGED project
       ELSE /\ project' = [project EXCEPT ![projectID].isCompleted =
                              TasksEvery(FindAllTasks(projectID))]
            /\ Reply("update-status", "project", 200, {projectID})
    /\ UNCHANGED <<ledger, task, taskAutoIncrement>>

\* ------------------------------------------------- the router of /task

\* Task.findByPk
TaskFound(taskID) == taskID \in DOMAIN task

\* Task.create: the row gets the next taskID.
TaskCreate(row) ==
    [t \in DOMAIN task \cup {taskAutoIncrement + 1} |->
        IF t = taskAutoIncrement + 1 THEN row ELSE task[t]]

\* task.destroy()
TaskDestroy(taskID) == [t \in DOMAIN task \ {taskID} |-> task[t]]

\* POST /add-task/:userID/:projectID; described says whether description and
\* Comments are both in the body.
AddTask(userID, projectID, status, described) ==
    /\ IF ~described \/ status = "undefined"
       THEN /\ Reply("add-task", "task", 400, {})
            /\ UNCHANGED <<task, taskAutoIncrement>>
       ELSE IF ~UserFound(userID) \/ ~ProjectFound(projectID)
       THEN /\ Reply("add-task", "task", 404, {})
            /\ UNCHANGED <<task, taskAutoIncrement>>
       ELSE /\ taskAutoIncrement < MaxTasks
            /\ task' = TaskCreate([projectID |-> projectID, status |-> status])
            /\ taskAutoIncrement' = taskAutoIncrement + 1
            /\ Reply("add-task", "task", 201, {})
    /\ UNCHANGED <<ledger, project>>

\* Variant: the route also writes the flag of the task's project.
EditTaskAndProject(taskID, status) ==
    /\ IF ~TaskFound(taskID)
       THEN /\ Reply("edit-task", "task", 404, {})
            /\ UNCHANGED <<task, project>>
       ELSE /\ task' = IF status = "undefined"
                       THEN task
                       ELSE [task EXCEPT ![taskID].status = status]
            /\ project' = [project EXCEPT ![task[taskID].projectID].isCompleted =
                                             status = "completed"]
            /\ Reply("edit-task", "task", 201, {})
    /\ UNCHANGED <<ledger, taskAutoIncrement>>

\* PUT /edit-task/:taskID
EditTask(taskID, status) ==
    /\ IF ~TaskFound(taskID)
       THEN /\ Reply("edit-task", "task", 404, {})
            /\ UNCHANGED task
       ELSE /\ task' = IF status = "undefined"
                       THEN task
                       ELSE [task EXCEPT ![taskID].status = status]
            /\ Reply("edit-task", "task", 201, {})
    /\ UNCHANGED <<ledger, project, taskAutoIncrement>>

\* DELETE /delete-task/:taskID
DeleteTask(taskID) ==
    /\ IF ~TaskFound(taskID)
       THEN /\ Reply("delete-task", "task", 404, {})
            /\ UNCHANGED task
       ELSE /\ task' = TaskDestroy(taskID)
            /\ Reply("delete-task", "task", 204, {})
    /\ UNCHANGED <<ledger, project, taskAutoIncrement>>

\* ------------------------------------------------------- completion rollup
\* The database before the first project is added.
InitRollup ==
    /\ project = <<>>
    /\ task = <<>>
    /\ taskAutoIncrement = 0
    /\ material = <<>>
    /\ tool = <<>>
    /\ projectMaterial = <<>>
    /\ projectTool = <<>>
    /\ last = [op |-> "none", kind |-> "none", status |-> 0, body |-> {}]
    /\ initial = [material |-> <<>>, tool |-> <<>>]
    /\ released = [material |-> <<>>, tool |-> <<>>]
    /\ nreq = 0
    /\ request = <<>>

NextRollup ==
    \/ \E title \in BodyTitles, isCompleted \in BodyFlags, required \in BOOLEAN :
          AddProject(1, title, isCompleted, required)
    \/ \E p \in ProjectIDs, title \in BodyTitles : EditProject(p, title)
    \/ \E p \in ProjectIDs : UpdateStatus(p)
    \/ \E u \in UserIDs, p \in ProjectIDs, status \in BodyStatuses, described \in BOOLEAN :
          AddTask(u, p, status, described)
    \/ \E t \in TaskIDs, status \in BodyStatuses : EditTask(t, status)
    \/ \E t \in TaskIDs : DeleteTask(t)

SpecRollup == InitRollup /\ [][NextRollup]_vars

\* ------------------------------------------------- routes/material.js
\* TaskController.checkTasksAndUpdateProject(projectId).  The function is not a
\* route: it returns {success: true, message} and sets no HTTP status, which
\* last records as status 0 with the project id asked for.
CheckTasksAndUpdateProject(projectId) ==
    /\ IF TasksEvery(FindAllTasks(projectId)) /\ ProjectFound(projectId)
       THEN project' = [project EXCEPT ![projectId].isCompleted = TRUE]
       ELSE UNCHANGED project
    /\ Reply("checkTasksAndUpdateProject", "project", 0, {projectId})
    /\ UNCHANGED <<ledger, task, taskAutoIncrement>>

\* The project and task routers together with calls of the controller function.
NextTaskController ==
    \/ NextRollup
    \/ \E p \in ProjectIDs : CheckTasksAndUpdateProject(p)

SpecTaskController == InitRollup /\ [][NextTaskController]_vars

\* ------------------------------------------- projects of several creators
\* req.body.title of the project routes when a title beyond those of the
\* rollup is free; 0 stands for a body without title.
BodyProjectTitles == 0..(NumTitles + 1)

\* add-project and edit-project called for every creator.
NextProjects ==
    \/ \E creatorID \in UserIDs, title \in BodyProjectTitles,
          isCompleted \in BodyFlags, required \in BOOLEAN :
          AddProject(creatorID, title, isCompleted, required)
    \/ \E p \in ProjectIDs, title \in BodyProjectTitles : EditProject(p, title)

SpecProjects == InitRollup /\ [][NextProjects]_vars

\* ----------------------------------------------- one await at a time
\* The add and edit routes of routes/project_material.js and
\* routes/project_tool.js again, one step for every await that reads or writes
\* a table another request writes.  request[i] holds the locals of a handler
\* that is suspended at an await: pc names the call it is waiting for,
\* quantity is material.quantity or tool.quantity of the object it read, row
\* and used are the index and the quantityUsed of the binding it read (row 0
\* when findOne returned null).
Locals(route, kind, projectID, resourceID, quantityUsed, pc, quantity, row, used) ==
    [route |-> route, kind |-> kind, projectID |-> projectID, resourceID |-> resourceID,
     quantityUsed |-> quantityUsed, pc |-> pc, quantity |-> quantity, row |-> row,
     used |-> used]

\* Histories and tables no add or edit route touches.
others == <<project, initial, released, task, taskAutoIncrement>>

\* Suspended at request[i] is the handler of the route route of the router kind,
\* waiting for the call pc.
At(i, route, kind, pc) ==
    /\ request[i].route = route
    /\ request[i].kind = kind
    /\ request[i].pc = pc

\* POST /:projectID/materials/add/:materialID up to Material.findByPk
MaterialAddStart(projectID, materialID, quantityUsed) ==
    /\ nreq + Len(request) < MaxRequests
    /\ IF ~ProjectFound(projectID) \/ ~MaterialFound(materialID)
       THEN /\ Respond("add", "material", 404, {})
            /\ UNCHANGED request
       ELSE IF MaterialAddInvalidQuantity(quantityUsed)
       THEN /\ Respond("add", "material", 400, {})
            /\ UNCHANGED request
       ELSE /\ request' = Append(request,
                   Locals("add", "material", projectID, materialID, quantityUsed,
                          "findOne", material[materialID].quantity, 0, 0))
            /\ UNCHANGED <<last, nreq>>
    /\ UNCHANGED <<tables, others>>

\* let projectMaterial = await ProjectMaterial.findOne(...)
MaterialAddFindOne(i) ==
    /\ At(i, "add", "material", "findOne")
    /\ LET found == FindOneProjectMaterial(request[i].projectID, request[i].resourceID)
       IN  IF found = {}
           THEN request' = [request EXCEPT ![i].pc = "writeBinding"]
           ELSE \E j \in found :
                   request' = [request EXCEPT ![i].pc = "writeBinding", ![i].row = j,
                                  ![i].used = projectMaterial[j].quantityUsed]
    /\ UNCHANGED <<tables, others, last, nreq>>

\* await ProjectMaterial.create(...) or await projectMaterial.update({quantityUsed})
MaterialAddWriteBinding(i) ==
    /\ At(i, "add", "material", "writeBinding")
    /\ projectMaterial' =
          IF request[i].row = 0
          THEN Append(projectMaterial, [projectID |-> request[i].projectID,
                                        materialID |-> request[i].resourceID,
                                        quantityUsed |-> request[i].quantityUsed])
          ELSE [projectMaterial EXCEPT ![request[i].row].quantityUsed =
                   MaterialAddUpdatedUsed(request[i].used, request[i].quantityUsed)]
    /\ request' = [request EXCEPT ![i].pc = "writeStock"]
    /\ UNCHANGED <<project, material, tool, projectTool, others, last, nreq>>

\* await material.update({quantity: updatedQuantity}); res.status(200)
MaterialAddWriteStock(i) ==
    /\ At(i, "add", "material", "writeStock")
    /\ material' = [material EXCEPT ![request[i].resourceID].quantity =
                       MaterialAddUpdatedQuantity(request[i].quantity, request[i].quantityUsed)]
    /\ Respond("add", "material", 200,
               {[projectID |-> request[i].projectID, materialID |-> request[i].resourceID,
                 quantityUsed |-> IF request[i].row = 0
                                  THEN request[i].quantityUsed
                                  ELSE MaterialAddUpdatedUsed(request[i].used,
                                                              request[i].quantityUsed)]})
    /\ request' = RemoveAt(request, i)
    /\ UNCHANGED <<project, tool, projectMaterial, projectTool, others>>

\* POST /:projectID/tools/add/:toolID up to Tool.findByPk and the checks
ToolAddStart(projectID, toolID, quantityUsed) ==
    /\ nreq + Len(request) < MaxRequests
    /\ IF ~ProjectFound(projectID) \/ ~ToolFound(toolID)
       THEN /\ Respond("add", "tool", 404, {})
            /\ UNCHANGED request
       ELSE IF \/ ToolAddInvalidQuantity(quantityUsed)
               \/ ToolAddInsufficient(tool[toolID].quantity, quantityUsed)
       THEN /\ Respond("add", "tool", 400, {})
            /\ UNCHANGED request
       ELSE /\ request' = Append(request,
                   Locals("add", "tool", projectID, toolID, quantityUsed,
                          "writeStock", tool[toolID].quantity, 0, 0))
            /\ UNCHANGED <<last, nreq>>
    /\ UNCHANGED <<tables, others>>

\* await tool.update({quantity: updatedQuantity})
ToolAddWriteStock(i) ==
    /\ At(i, "add", "tool", "writeStock")
    /\ tool' = [tool EXCEPT ![request[i].resourceID].quantity =
                   request[i].quantity - request[i].quantityUsed]
    /\ request' = [request EXCEPT ![i].pc = "writeBinding"]
    /\ UNCHANGED <<project, material, projectMaterial, projectTool, others, last, nreq>>

\* const projectTool = await ProjectTool.create(...); res.status(200)
ToolAddCreate(i) ==
    /\ At(i, "add", "tool", "writeBinding")
    /\ LET row == [projectID |-> request[i].projectID, toolID |-> request[i].resourceID,
                   quantityUsed |-> request[i].quantityUsed]
       IN  /\ projectTool' = Append(projectTool, row)
           /\ Respond("add", "tool", 200, {row})
    /\ request' = RemoveAt(request, i)
    /\ UNCHANGED <<project, material, tool, projectMaterial, others>>

\* The table and the lookups of the router kind.
Bindings(kind) == IF kind = "material" THEN projectMaterial ELSE projectTool

FindOneBinding(kind, projectID, resourceID) ==
    IF kind = "material"
    THEN FindOneProjectMaterial(projectID, resourceID)
    ELSE FindOneProjectTool(projectID, resourceID)

ResourceFound(kind, resourceID) ==
    IF kind = "material" THEN MaterialFound(resourceID) ELSE ToolFound(resourceID)

ResourceQuantity(kind, resourceID) ==
    IF kind = "material" THEN material[resourceID].quantity ELSE tool[resourceID].quantity

\* PUT /:projectID/materials/edit/:materialID and PUT /:projectID/tools/edit/:toolID
\* up to findOne
EditStart(kind, projectID, resourceID, quantityUsed) ==
    /\ nreq + Len(request) < MaxRequests
    /\ LET found == FindOneBinding(kind, projectID, resourceID)
       IN  IF found = {}
           THEN /\ Respond("edit", kind, 404, {})
                /\ UNCHANGED request
           ELSE /\ \E j \in found :
                      request' = Append(request,
                         Locals("edit", kind, projectID, resourceID, quantityUsed,
                                "findByPk", 0, j, Bindings(kind)[j].quantityUsed))
                /\ UNCHANGED <<last, nreq>>
    /\ UNCHANGED <<tables, others>>

\* const material = await Material.findByPk(materialID) and the branches on
\* quantityDifference, up to the first update
EditFindByPk(i) ==
    /\ request[i].route = "edit"
    /\ request[i].pc = "findByPk"
    /\ LET kind == request[i].kind
           resourceID == request[i].resourceID
           quantityDifference == request[i].quantityUsed - request[i].used
       IN  IF ~ResourceFound(kind, resourceID)
           THEN /\ Respond("edit", kind, 404, {})
                /\ request' = RemoveAt(request, i)
           ELSE IF \/ quantityDifference < 0
                   \/ IF kind = "material"
                      THEN MaterialEditAvailable(material[resourceID].quantity,
                                                 quantityDifference)
                      ELSE ToolEditAvailable(tool[resourceID].quantity, quantityDifference)
           THEN /\ request' = [request EXCEPT ![i].pc = "writeStock",
                                  ![i].quantity = ResourceQuantity(kind, resourceID)]
                /\ UNCHANGED <<last, nreq>>
           ELSE /\ Respond("edit", kind, 400, {})
                /\ request' = RemoveAt(request, i)
    /\ UNCHANGED <<tables, others>>

\* await material.update({quantity: updatedQuantity}), await tool.update(...)
EditWriteStock(i) ==
    /\ request[i].route = "edit"
    /\ request[i].pc = "writeStock"
    /\ LET resourceID == request[i].resourceID
           quantityDifference == request[i].quantityUsed - request[i].used
       IN  IF request[i].kind = "material"
           THEN /\ material' = [material EXCEPT ![resourceID].quantity =
                       IF quantityDifference < 0
                       THEN MaterialEditReturned(request[i].quantity, quantityDifference)
                       ELSE request[i].quantity - quantityDifference]
                /\ UNCHANGED tool
           ELSE /\ tool' = [tool EXCEPT ![resourceID].quantity =
                       IF quantityDifference < 0
                       THEN ToolEditReturned(request[i].quantity, quantityDifference)
                       ELSE request[i].quantity - quantityDifference]
                /\ UNCHANGED material
    /\ request' = [request EXCEPT ![i].pc = "writeBinding"]
    /\ UNCHANGED <<project, projectMaterial, projectTool, others, last, nreq>>

\* await projectMaterial.update({quantityUsed}), await projectTool.update(...);
\* res.status(200)
EditWriteBinding(i) ==
    /\ request[i].route = "edit"
    /\ request[i].pc = "writeBinding"
    /\ LET row == [Bindings(request[i].kind)[request[i].row] EXCEPT
                      !.quantityUsed = request[i].quantityUsed]
       IN  /\ IF request[i].kind = "material"
              THEN /\ projectMaterial' = [projectMaterial EXCEPT ![request[i].row] = row]
                   /\ UNCHANGED projectTool
              ELSE /\ projectTool' = [projectTool EXCEPT ![request[i].row] = row]
                   /\ UNCHANGED projectMaterial
           /\ Respond("edit", request[i].kind, 200, {row})
    /\ request' = RemoveAt(request, i)
    /\ UNCHANGED <<project, material, tool, others>>

\* The awaited call of request[i] rejects: catch (err) { res.status(500) }
AwaitRejects(i) ==
    /\ Respond(request[i].route, request[i].kind, 500, {})
    /\ request' = RemoveAt(request, i)
    /\ UNCHANGED <<tables, others>>

\* Requests are received while others are suspended; every awaited call completes.
NextInterleaved ==
    \/ \E p \in ProjectIDs, r \in ResourceIDs, q \in Quantities : MaterialAddStart(p, r, q)
    \/ \E p \in ProjectIDs, r \in ResourceIDs, q \in Quantities : ToolAddStart(p, r, q)
    \/ \E kind \in {"material", "tool"}, p \in ProjectIDs, r \in ResourceIDs,
          q \in Quantities : EditStart(kind, p, r, q)
    \/ \E i \in DOMAIN request : MaterialAddFindOne(i)
    \/ \E i \in DOMAIN request : MaterialAddWriteBinding(i)
    \/ \E i \in DOMAIN request : MaterialAddWriteStock(i)
    \/ \E i \in DOMAIN request : ToolAddWriteStock(i)
    \/ \E i \in DOMAIN request : ToolAddCreate(i)
    \/ \E i \in DOMAIN request : EditFindByPk(i)
    \/ \E i \in DOMAIN request : EditWriteStock(i)
    \/ \E i \in DOMAIN request : EditWriteBinding(i)

SpecInterleaved == Init /\ [][NextInterleaved]_vars

\* One request at a time; an awaited call completes or rejects.
NextFailing ==
    \/ /\ request = <<>>
       /\ \/ \E p \in ProjectIDs, r \in ResourceIDs, q \in Quantities :
                MaterialAddStart(p, r, q)
          \/ \E p \in ProjectIDs, r \in ResourceIDs, q \in Quantities :
                ToolAddStart(p, r, q)
          \/ \E kind \in {"material", "tool"}, p \in ProjectIDs, r \in ResourceIDs,
                q \in Quantities : EditStart(kind, p, r, q)
    \/ \E i \in DOMAIN request : MaterialAddFindOne(i)
    \/ \E i \in DOMAIN request : MaterialAddWriteBinding(i)
    \/ \E i \in DOMAIN request : MaterialAddWriteStock(i)
    \/ \E i \in DOMAIN request : ToolAddWriteStock(i)
    \/ \E i \in DOMAIN request : ToolAddCreate(i)
    \/ \E i \in DOMAIN request : EditFindByPk(i)
    \/ \E i \in DOMAIN request : EditWriteStock(i)
    \/ \E i \in DOMAIN request : EditWriteBinding(i)
    \/ \E i \in DOMAIN request : AwaitRejects(i)

SpecFailing == Init /\ [][NextFailing]_vars

\* ------------------------------------------ the two routers side by side
\* A request sent to /project_material and then, with the same parameters, to
\* /project_tool.  request holds the request being replayed: its route and
\* parameters, the status the material router answered and whether the tool
\* router has answered too.
Replayed(route, projectID, resourceID, quantityUsed, status, pc) ==
    [route |-> route, projectID |-> projectID, resourceID |-> resourceID,
     quantityUsed |-> quantityUsed, status |-> status, pc |-> pc]

\* No request is waiting for its tool replay.
ReplayIdle == IF request = <<>> THEN TRUE ELSE request[1].pc = "done"

\* The request answered by the material router waits for the tool router.
ReplayDue(route) ==
    IF request = <<>>
    THEN FALSE
    ELSE request[1].pc = "tool" /\ request[1].route = route

\* The material router answers, the request is kept for the tool router.
ReplayKeep(route, projectID, resourceID, quantityUsed) ==
    request' = <<Replayed(route, projectID, resourceID, quantityUsed, last'.status, "tool")>>

\* The tool router has answered the same request.
ReplayDone == request' = <<[request[1] EXCEPT !.pc = "done"]>>

NextLockstep ==
    \/ /\ ReplayIdle
       /\ \E p \in ProjectIDs, r \in ResourceIDs, q \in Quantities :
             MaterialAdd(p, r, q) /\ ReplayKeep("add", p, r, q)
       /\ UNCHANGED <<task, taskAutoIncrement>>
    \/ /\ ReplayIdle
       /\ \E p \in ProjectIDs, r \in ResourceIDs, q \in Quantities :
             MaterialEdit(p, r, q) /\ ReplayKeep("edit", p, r, q)
       /\ UNCHANGED <<task, taskAutoIncrement>>
    \/ /\ ReplayIdle
       /\ \E p \in ProjectIDs, r \in ResourceIDs :
             MaterialDelete(p, r) /\ ReplayKeep("delete", p, r, 0)
       /\ UNCHANGED <<task, taskAutoIncrement>>
    \/ /\ ReplayDue("add")
       /\ ToolAdd(request[1].projectID, request[1].resourceID, request[1].quantityUsed)
       /\ ReplayDone
       /\ UNCHANGED <<task, taskAutoIncrement>>
    \/ /\ ReplayDue("edit")
       /\ ToolEdit(request[1].projectID, request[1].resourceID, request[1].quantityUsed)
       /\ ReplayDone
       /\ UNCHANGED <<task, taskAutoIncrement>>
    \/ /\ ReplayDue("delete")
       /\ ToolDelete(request[1].projectID, request[1].resourceID)
       /\ ReplayDone
       /\ UNCHANGED <<task, taskAutoIncrement>>

SpecLockstep == Init /\ [][NextLockstep]_vars

\* ------------------------------------- the resources and their listings
\* PUT /edit-material/:materialID (routes/material.js), PUT /edit-tool/:toolID
\* and the get routes of routes/project_material.js and routes/project_tool.js,
\* on material and tool rows that carry name, cost and owner.
MaxCost == 1

Costs == 0..MaxCost

Names == 1..(NumResources + 1)

\* req.body.materialName / toolName; 0 stands for a body without name.
BodyNames == 0..(NumResources + 1)

\* A body field that may be undefined: {} when it is, {v} when it holds v.
Optional(S) == {{}} \cup {{v} : v \in S}

\* userID of the rows the database starts with.
Owner(r) == ((r - 1) % NumUsers) + 1

\* The database with the resources of the users and no binding yet.
InitInventory ==
    /\ project = [p \in 1..NumProjects |-> [isCompleted |-> FALSE]]
    /\ \E stock \in 0..MaxStock :
          /\ material = [m \in 1..NumResources |->
                            [materialName |-> m, quantity |-> stock,
                             cost |-> m % (MaxCost + 1), userID |-> Owner(m)]]
          /\ tool = [t \in 1..NumResources |->
                        [toolName |-> t, quantity |-> stock,
                         cost |-> t % (MaxCost + 1), userID |-> Owner(t)]]
    /\ projectMaterial = <<>>
    /\ projectTool = <<>>
    /\ last = [op |-> "none", kind |-> "none", status |-> 0, body |-> {}]
    /\ initial = [material |-> [m \in DOMAIN material |-> material[m].quantity],
                  tool |-> [t \in DOMAIN tool |-> tool[t].quantity]]
    /\ released = [material |-> [m \in DOMAIN material |-> 0],
                   tool |-> [t \in DOMAIN tool |-> 0]]
    /\ nreq = 0
    /\ task = <<>>
    /\ taskAutoIncrement = 0
    /\ request = <<>>

\* Material.findOne({where: {userID, materialName}})
FindOneMaterialByName(userID, materialName) ==
    {m \in DOMAIN material :
        material[m].userID = userID /\ material[m].materialName = materialName}

\* Variant: a body without the field resets the column.
EditFieldReset(current, given) == IF given = {} THEN 0 ELSE CHOOSE v \in given : TRUE

\* if (field !== undefined) row.field = field
EditField(current, given) == IF given = {} THEN current ELSE CHOOSE v \in given : TRUE

\* PUT /edit-material/:materialID.  existingMaterial.materialID is a number and
\* req.params.materialID a string, so !== holds for every material found, the
\* edited one included.
EditMaterial(materialID, materialName, quantity, cost) ==
    /\ nreq < MaxRequests
    /\ IF ~MaterialFound(materialID)
       THEN /\ Respond("edit-material", "material", 404, {})
            /\ UNCHANGED material
       ELSE IF /\ materialName \in Names
               /\ FindOneMaterialByName(material[materialID].userID, materialName) # {}
       THEN /\ Respond("edit-material", "material", 409, {})
            /\ UNCHANGED material
       ELSE LET row == [materialName |-> IF materialName \in Names
                                         THEN materialName
                                         ELSE material[materialID].materialName,
                        quantity |-> EditField(material[materialID].quantity, quantity),
                        cost |-> EditField(material[materialID].cost, cost),
                        userID |-> material[materialID].userID]
            IN  /\ material' = [material EXCEPT ![materialID] = row]
                /\ Respond("edit-material", "material", 200, {row})
    /\ UNCHANGED <<project, tool, projectMaterial, projectTool, initial, released>>

\* Tool.findOne({where: {userID, toolName}})
FindOneToolByName(userID, toolName) ==
    {t \in DOMAIN tool : tool[t].userID = userID /\ tool[t].toolName = toolName}

\* PUT /edit-tool/:toolID.  existingTool.toolID != toolID is a loose comparison,
\* so the tool may keep its own name.
EditTool(toolID, toolName, quantity, cost) ==
    /\ nreq < MaxRequests
    /\ IF ~ToolFound(toolID)
       THEN /\ Respond("edit-tool", "tool", 404, {})
            /\ UNCHANGED tool
       ELSE IF /\ toolName \in Names
               /\ FindOneToolByName(tool[toolID].userID, toolName) \ {toolID} # {}
       THEN /\ Respond("edit-tool", "tool", 409, {})
            /\ UNCHANGED tool
       ELSE /\ tool' = [tool EXCEPT ![toolID] =
                          [toolName |-> IF toolName \in Names THEN toolName ELSE @.toolName,
                           quantity |-> EditField(@.quantity, quantity),
                           cost |-> EditField(@.cost, cost),
                           userID |-> @.userID]]
            /\ Respond("edit-tool", "tool", 201, {})
    /\ UNCHANGED <<project, material, projectMaterial, projectTool, initial, released>>

\* Variant: the where clause left out.
FindAllProjectMaterialAnyProject(projectID) == projectMaterial

\* ProjectMaterial.findAll({where: {projectID}})
FindAllProjectMaterial(projectID) ==
    SelectSeq(projectMaterial, LAMBDA pm : pm.projectID = projectID)

\* GET /:projectID/materials/get; the body is the array materialDetails.
GetMaterials(projectID) ==
    /\ nreq < MaxRequests
    /\ LET projectMaterials == FindAllProjectMaterial(projectID)
           materialDetails ==
              [i \in DOMAIN projectMaterials |->
                  LET pm == projectMaterials[i]
                      found == material[pm.materialID]
                  IN  [materialName |-> found.materialName,
                       cost |-> found.cost,
                       materialID |-> pm.materialID,
                       userID |-> found.userID,
                       quantityUsed |-> pm.quantityUsed]]
       IN  Respond("get", "material", 200, materialDetails)
    /\ UNCHANGED <<tables, initial, released>>

\* ProjectTool.findAll({where: {projectID}})
FindAllProjectTool(projectID) ==
    SelectSeq(projectTool, LAMBDA pt : pt.projectID = projectID)

\* GET /:projectID/tools/get; the body is the array toolDetails.
GetTools(projectID) ==
    /\ nreq < MaxRequests
    /\ LET projectTools == FindAllProjectTool(projectID)
           toolDetails ==
              [i \in DOMAIN projectTools |->
                  LET pt == projectTools[i]
                      found == tool[pt.toolID]
                  IN  [toolName |-> found.toolName,
                       cost |-> found.cost,
                       toolID |-> pt.toolID,
                       userID |-> found.userID,
                       quantityUsed |-> pt.quantityUsed]]
       IN  Respond("get", "tool", 200, toolDetails)
    /\ UNCHANGED <<tables, initial, released>>

NextInventory ==
    \/ Next
    \/ /\ \E m \in ResourceIDs, materialName \in BodyNames,
             quantity \in Optional(Quantities), cost \in Optional(Costs) :
             EditMaterial(m, materialName, quantity, cost)
       /\ UNCHANGED <<task, taskAutoIncrement, request>>
    \/ /\ \E t \in ResourceIDs, toolName \in BodyNames,
             quantity \in Optional(Quantities), cost \in Optional(Costs) :
             EditTool(t, toolName, quantity, cost)
       /\ UNCHANGED <<task, taskAutoIncrement, request>>
    \/ /\ \E p \in ProjectIDs : GetMaterials(p)
       /\ UNCHANGED <<task, taskAutoIncrement, request>>
    \/ /\ \E p \in ProjectIDs : GetTools(p)
       /\ UNCHANGED <<task, taskAutoIncrement, request>>

SpecInventory == InitInventory /\ [][NextInventory]_vars

\* ------------------------------------------------------------ quantities
\* The project_material rows of one material, the project_tool rows of one tool.
MaterialRows(materialID) == SelectSeq(projectMaterial, LAMBDA row : row.materialID = materialID)
ToolRows(toolID) == SelectSeq(projectTool, LAMBDA row : row.toolID = toolID)

\* The step is a request served by the route op of the router kind.
ServedBy(op, kind) == last'.op = op /\ last'.kind = kind

\* ================================================================ claims

\* C1 (as stated): for every material and tool, quantity plus the sum of
\* quantityUsed over the bindings that exist equals the initial quantity, after
\* every sequence of add, edit and delete requests.
Conservation ==
    /\ \A m \in DOMAIN material :
          material[m].quantity + SumUsed(MaterialRows(m)) = initial.material[m]
    /\ \A t \in DOMAIN tool :
          tool[t].quantity + SumUsed(ToolRows(t)) = initial.tool[t]

\* C1 (amended): quantity plus the sum of quantityUsed over the bindings that
\* exist plus the quantityUsed of every binding that a delete request removed
\* equals the initial quantity.
ConservationUpToRelease ==
    /\ \A m \in DOMAIN material :
          material[m].quantity + SumUsed(MaterialRows(m)) + released.material[m]
              = initial.material[m]
    /\ \A t \in DOMAIN tool :
          tool[t].quantity + SumUsed(ToolRows(t)) + released.tool[t] = initial.tool[t]

\* C1 witness: the only binding of material 1 was deleted; what it held is
\* neither on hand nor bound any more.
ConservationWitness ==
    /\ last.op = "delete" /\ last.kind = "material" /\ last.status = 200
    /\ MaterialRows(1) = <<>>
    /\ released.material[1] > 0
    /\ material[1].quantity < initial.material[1]

\* C2: the quantity of every material and of every tool is never negative.
NonNegativeStock ==
    /\ \A m \in DOMAIN material : material[m].quantity >= 0
    /\ \A t \in DOMAIN tool : tool[t].quantity >= 0

\* C3: an add request for more than the resource's quantity is answered 400 and
\* changes no table, for materials and for tools.
CommitInsufficientStock ==
    /\ [][ServedBy("add", "material") =>
          \A p \in ProjectIDs, r \in ResourceIDs, q \in Quantities :
             (/\ ProjectFound(p) /\ MaterialFound(r) /\ q > 0
              /\ q > material[r].quantity
              /\ MaterialAdd(p, r, q))
                => (last'.status = 400 /\ UNCHANGED tables)]_vars
    /\ [][ServedBy("add", "tool") =>
          \A p \in ProjectIDs, r \in ResourceIDs, q \in Quantities :
             (/\ ProjectFound(p) /\ ToolFound(r) /\ q > 0
              /\ q > tool[r].quantity
              /\ ToolAdd(p, r, q))
                => (last'.status = 400 /\ UNCHANGED tables)]_vars

\* C4: a material add request with q > 0 that is answered 200 creates the binding
\* with quantityUsed q when the pair has none, otherwise adds q to the existing
\* binding, lowers the material's quantity by q, and changes nothing else.
MaterialCommitEffect ==
    [][ServedBy("add", "material") =>
       \A p \in ProjectIDs, m \in ResourceIDs, q \in Quantities :
          (q > 0 /\ last'.status = 200 /\ MaterialAdd(p, m, q)) =>
             /\ material' = [material EXCEPT ![m].quantity = material[m].quantity - q]
             /\ IF FindOneProjectMaterial(p, m) = {}
                THEN /\ projectMaterial' = Append(projectMaterial,
                            [projectID |-> p, materialID |-> m, quantityUsed |-> q])
                     /\ last'.body = {projectMaterial'[Len(projectMaterial')]}
                ELSE \E i \in FindOneProjectMaterial(p, m) :
                     /\ projectMaterial' = [projectMaterial EXCEPT ![i].quantityUsed =
                                               projectMaterial[i].quantityUsed + q]
                     /\ last'.body = {projectMaterial'[i]}
             /\ UNCHANGED <<project, tool, projectTool>>]_vars

\* C4 witness: material 1 started with 2; after two requests, the last one an
\* add answered 200, the binding of (1, 1) holds 2, the stock is 0 and
\* material 2 is as it started.
MaterialCommitWitness ==
    /\ last.op = "add" /\ last.kind = "material" /\ last.status = 200
    /\ nreq = 2
    /\ last.body = {[projectID |-> 1, materialID |-> 1, quantityUsed |-> 2]}
    /\ projectMaterial = <<[projectID |-> 1, materialID |-> 1, quantityUsed |-> 2]>>
    /\ initial.material[1] = 2
    /\ material[1].quantity = 0
    /\ material[2].quantity = initial.material[2]

\* C5: at most one project_material row for each (projectID, materialID).
SingleBindingMaterial ==
    \A i, j \in DOMAIN projectMaterial :
        (/\ projectMaterial[i].projectID = projectMaterial[j].projectID
         /\ projectMaterial[i].materialID = projectMaterial[j].materialID) => i = j

\* C5 witness: two add requests for the pair (2, 1), carrying 3 together (one
\* request carries at most MaxQty), left a single row in project_material.
SingleBindingMaterialWitness ==
    /\ nreq = 2
    /\ projectMaterial = <<[projectID |-> 2, materialID |-> 1, quantityUsed |-> 3]>>
    /\ last.op = "add" /\ last.kind = "material" /\ last.status = 200

\* C6: at most one project_tool row for each (projectID, toolID).
SingleBindingTool ==
    \A i, j \in DOMAIN projectTool :
        (/\ projectTool[i].projectID = projectTool[j].projectID
         /\ projectTool[i].toolID = projectTool[j].toolID) => i = j

\* C7: an add request naming a missing project or resource is answered 404, one
\* with quantityUsed <= 0 on an existing project and resource is answered 400,
\* and neither changes a table.
CommitRejections ==
    /\ [][ServedBy("add", "material") =>
          /\ (\E p \in ProjectIDs, r \in ResourceIDs, q \in Quantities :
                 /\ (p \notin DOMAIN project \/ r \notin DOMAIN material)
                 /\ MaterialAdd(p, r, q))
                => (last'.status = 404 /\ UNCHANGED tables)
          /\ (\E p \in DOMAIN project, r \in DOMAIN material, q \in Quantities :
                 q <= 0 /\ MaterialAdd(p, r, q))
                => (last'.status = 400 /\ UNCHANGED tables)]_vars
    /\ [][ServedBy("add", "tool") =>
          /\ (\E p \in ProjectIDs, r \in ResourceIDs, q \in Quantities :
                 /\ (p \notin DOMAIN project \/ r \notin DOMAIN tool)
                 /\ ToolAdd(p, r, q))
                => (last'.status = 404 /\ UNCHANGED tables)
          /\ (\E p \in DOMAIN project, r \in DOMAIN tool, q \in Quantities :
                 q <= 0 /\ ToolAdd(p, r, q))
                => (last'.status = 400 /\ UNCHANGED tables)]_vars

\* C7 witness: a material add request was answered 400 (the material route has
\* no other 400) while a binding and committed stock were there to be changed.
CommitRejectionsWitness ==
    /\ last.op = "add" /\ last.kind = "material" /\ last.status = 400
    /\ projectMaterial # <<>>
    /\ material[1].quantity < initial.material[1]

AdjustIncrease ==
    /\ [][ServedBy("edit", "material") =>
          \A b \in DOMAIN projectMaterial, q \in Quantities :
             LET p == projectMaterial[b].projectID
                 r == projectMaterial[b].materialID
             IN  (/\ MaterialFound(r)
                  /\ \A i \in FindOneProjectMaterial(p, r) : q > projectMaterial[i].quantityUsed
                  /\ MaterialEdit(p, r, q))
                    => \E i \in FindOneProjectMaterial(p, r) :
                          LET delta == q - projectMaterial[i].quantityUsed
                          IN  IF delta <= material[r].quantity
                              THEN /\ last'.status = 200
                                   /\ projectMaterial' =
                                         [projectMaterial EXCEPT ![i].quantityUsed = q]
                                   /\ material' = [material EXCEPT ![r].quantity =
                                         material[r].quantity - delta]
                                   /\ UNCHANGED <<project, tool, projectTool>>
                              ELSE /\ last'.status = 400
                                   /\ UNCHANGED tables]_vars
    /\ [][ServedBy("edit", "tool") =>
          \A b \in DOMAIN projectTool, q \in Quantities :
             LET p == projectTool[b].projectID
                 r == projectTool[b].toolID
             IN  (/\ ToolFound(r)
                  /\ \A i \in FindOneProjectTool(p, r) : q > projectTool[i].quantityUsed
                  /\ ToolEdit(p, r, q))
                    => \E i \in FindOneProjectTool(p, r) :
                          LET delta == q - projectTool[i].quantityUsed
                          IN  IF delta <= tool[r].quantity
                              THEN /\ last'.status = 200
                                   /\ projectTool' =
                                         [projectTool EXCEPT ![i].quantityUsed = q]
                                   /\ tool' = [tool EXCEPT ![r].quantity =
                                         tool[r].quantity - delta]
                                   /\ UNCHANGED <<project, material, projectMaterial>>
                              ELSE /\ last'.status = 400
                                   /\ UNCHANGED tables]_vars

\* C9 witness: after one add and one edit the binding of (1, 1) is 2 and the
\* stock went from 2 to 0: the add carried 1 and the edit raised it by 1.
AdjustIncreaseWitness ==
    /\ last.op = "edit" /\ last.kind = "material" /\ last.status = 200
    /\ nreq = 2
    /\ last.body = {[projectID |-> 1, materialID |-> 1, quantityUsed |-> 2]}
    /\ initial.material[1] = 2
    /\ material[1].quantity = 0

\* C10: an edit request whose quantityUsed equals the binding's is answered 200
\* with the binding, and changes no table.
AdjustSame ==
    /\ [][ServedBy("edit", "material") =>
          \A b \in DOMAIN projectMaterial, q \in Quantities :
             LET p == projectMaterial[b].projectID
                 r == projectMaterial[b].materialID
             IN  (/\ MaterialFound(r)
                  /\ \A i \in FindOneProjectMaterial(p, r) : q = projectMaterial[i].quantityUsed
                  /\ MaterialEdit(p, r, q))
                    => /\ last'.status = 200
                       /\ \E i \in FindOneProjectMaterial(p, r) :
                             last'.body = {projectMaterial[i]}
                       /\ UNCHANGED tables]_vars
    /\ [][ServedBy("edit", "tool") =>
          \A b \in DOMAIN projectTool, q \in Quantities :
             LET p == projectTool[b].projectID
                 r == projectTool[b].toolID
             IN  (/\ ToolFound(r)
                  /\ \A i \in FindOneProjectTool(p, r) : q = projectTool[i].quantityUsed
                  /\ ToolEdit(p, r, q))
                    => /\ last'.status = 200
                       /\ \E i \in FindOneProjectTool(p, r) : last'.body = {projectTool[i]}
                       /\ UNCHANGED tables]_vars

\* C11: an edit request for a pair (projectID, resourceID) that has no binding,
\* or for a resource that does not exist, is answered 404 and changes no
\* material, no tool and no binding.
AdjustNotFound ==
    /\ [][ServedBy("edit", "material") =>
          ((\E p \in ProjectIDs, r \in ResourceIDs, q \in Quantities :
               /\ \/ r \notin DOMAIN material
                  \/ \A i \in DOMAIN projectMaterial :
                        ~(/\ projectMaterial[i].projectID = p
                          /\ projectMaterial[i].materialID = r)
               /\ MaterialEdit(p, r, q))
             => /\ last'.status = 404
                /\ UNCHANGED <<material, tool, projectMaterial, projectTool>>)]_vars
    /\ [][ServedBy("edit", "tool") =>
          ((\E p \in ProjectIDs, r \in ResourceIDs, q \in Quantities :
               /\ \/ r \notin DOMAIN tool
                  \/ \A i \in DOMAIN projectTool :
                        ~(/\ projectTool[i].projectID = p
                          /\ projectTool[i].toolID = r)
               /\ ToolEdit(p, r, q))
             => /\ last'.status = 404
                /\ UNCHANGED <<material, tool, projectTool, projectMaterial>>)]_vars

\* C11 witness: a tool edit request was answered 404 while tool 1 had a binding
\* and committed stock that the request could have changed.
AdjustNotFoundWitness ==
    /\ last.op = "edit" /\ last.kind = "tool" /\ last.status = 404
    /\ projectTool = <<[projectID |-> 1, toolID |-> 1, quantityUsed |-> 1]>>
    /\ tool[1].quantity = initial.tool[1] - 1

\* C12: a delete request for a pair that has a binding is answered 200, removes
\* one row of that pair and leaves every other row, every material and every
\* tool as it was (the quantityUsed of the row is not added back); for a pair
\* without binding it is answered 404 and changes no table.
ReleaseEffect ==
    /\ [][ServedBy("delete", "material") =>
          \A p \in ProjectIDs, r \in ResourceIDs :
             MaterialDelete(p, r) =>
                IF \E i \in DOMAIN projectMaterial :
                      /\ projectMaterial[i].projectID = p
                      /\ projectMaterial[i].materialID = r
                THEN /\ last'.status = 200
                     /\ \E i \in DOMAIN projectMaterial :
                           /\ projectMaterial[i].projectID = p
                           /\ projectMaterial[i].materialID = r
                           /\ projectMaterial' = SubSeq(projectMaterial, 1, i - 1)
                                 \o SubSeq(projectMaterial, i + 1, Len(projectMaterial))
                     /\ UNCHANGED <<project, material, tool, projectTool>>
                ELSE /\ last'.status = 404
                     /\ UNCHANGED tables]_vars
    /\ [][ServedBy("delete", "tool") =>
          \A p \in ProjectIDs, r \in ResourceIDs :
             ToolDelete(p, r) =>
                IF \E i \in DOMAIN projectTool :
                      /\ projectTool[i].projectID = p
                      /\ projectTool[i].toolID = r
                THEN /\ last'.status = 200
                     /\ \E i \in DOMAIN projectTool :
                           /\ projectTool[i].projectID = p
                           /\ projectTool[i].toolID = r
                           /\ projectTool' = SubSeq(projectTool, 1, i - 1)
                                 \o SubSeq(projectTool, i + 1, Len(projectTool))
                     /\ UNCHANGED <<project, material, tool, projectMaterial>>
                ELSE /\ last'.status = 404
                     /\ UNCHANGED tables]_vars

\* C12 witness: the binding of tool 1 that held its whole stock of 2 was
\* deleted; the table is empty and the quantity of tool 1 is still 0.
ReleaseEffectWitness ==
    /\ last.op = "delete" /\ last.kind = "tool" /\ last.status = 200
    /\ projectTool = <<>>
    /\ initial.tool[1] = 2
    /\ tool[1].quantity = 0

RollupIdempotent ==
    [][\A p \in DOMAIN project :
          (/\ last = [op |-> "update-status", kind |-> "project", status |-> 200,
                      body |-> {p}]
           /\ UpdateStatus(p))
             => (last'.status = 200 /\ project'[p].isCompleted = project[p].isCompleted)]_vars

\* C15 witness: the last request recomputed project 1, which has a pending
\* task and a completed one; the flag is false and a second recompute is due.
RollupIdempotentWitness ==
    /\ last = [op |-> "update-status", kind |-> "project", status |-> 200, body |-> {1}]
    /\ \E t \in DOMAIN task : task[t] = [projectID |-> 1, status |-> "pending"]
    /\ \E t \in DOMAIN task : task[t] = [projectID |-> 1, status |-> "completed"]
    /\ ~project[1].isCompleted
    /\ ENABLED UpdateStatus(1)

\* C16: a request served by any route but update-status (add-task, edit-task,
\* delete-task, add-project, edit-project) leaves the isCompleted of every
\* project that exists as it was.
FlagOwnedByRollup ==
    [][last'.op # "update-status" =>
       \A p \in DOMAIN project :
          p \in DOMAIN project' /\ project'[p].isCompleted = project[p].isCompleted]_vars

\* C16 witness: project 1 was created not completed, its only task has been
\* edited to completed, and the flag is still false.
FlagOwnedByRollupWitness ==
    /\ last = [op |-> "edit-task", kind |-> "task", status |-> 201, body |-> {}]
    /\ DOMAIN task = {1}
    /\ task[1] = [projectID |-> 1, status |-> "completed"]
    /\ ~project[1].isCompleted

\* C17 (as stated): in every reachable state, a project's isCompleted is true
\* if and only if every task of the project is completed.
CompletedIffEveryTask ==
    \A p \in DOMAIN project :
        project[p].isCompleted <=>
           (\A t \in DOMAIN task : task[t].projectID = p => task[t].status = "completed")

\* C17 (amended): in every reachable state whose last request was a recompute
\* of project p answered 200, the isCompleted of p is true if and only if
\* every task of p is completed.
CompletedIffEveryTaskAfterRollup ==
    \A p \in DOMAIN project :
        last = [op |-> "update-status", kind |-> "project", status |-> 200, body |-> {p}]
           => (project[p].isCompleted <=>
                 (\A t \in DOMAIN task :
                     task[t].projectID = p => task[t].status = "completed"))

\* C17 witness: a recompute of project 1 found one of its two tasks in
\* progress and left the flag false.
CompletedIffEveryTaskWitness ==
    /\ last = [op |-> "update-status", kind |-> "project", status |-> 200, body |-> {1}]
    /\ DOMAIN task = {1, 2}
    /\ task[1] = [projectID |-> 1, status |-> "completed"]
    /\ task[2] = [projectID |-> 1, status |-> "in progress"]
    /\ ~project[1].isCompleted

\* C18: a recompute of a project id that is not in the table project is
\* answered 404 and changes no project and no task.
RollupNotFound ==
    [][ServedBy("update-status", "project") =>
       ((\E p \in ProjectIDs : p \notin DOMAIN project /\ UpdateStatus(p))
          => (last'.status = 404 /\ UNCHANGED <<project, task>>))]_vars

\* C18 witness: a recompute was answered 404 while project 1 and a completed
\* task of it were in the tables.
RollupNotFoundWitness ==
    /\ last = [op |-> "update-status", kind |-> "project", status |-> 404, body |-> {}]
    /\ DOMAIN project = {1}
    /\ \E t \in DOMAIN task : task[t] = [projectID |-> 1, status |-> "completed"]
    /\ ~project[1].isCompleted

\* C19, on the tool routes (their add and edit check the stock they read; the
\* material add route has no check to race against): whatever the interleaving
\* of the awaits of add and edit requests, no tool's quantity is below zero
\* and the quantityUsed of the bindings of a tool never add up to more than
\* the stock the tool had before the requests.
NoOversellInterleaved ==
    \A t \in DOMAIN tool :
        /\ tool[t].quantity >= 0
        /\ SumUsed(ToolRows(t)) <= initial.tool[t]

\* C20: when an awaited write of an add or edit request rejects, the request
\* is answered 500 and the quantity of its resource and the binding of its
\* pair are what the request read before its first write (no other request
\* runs in between).
AtomicCommitAdjust ==
    [][\A i \in DOMAIN request :
          (/\ request[i].pc \in {"writeBinding", "writeStock"}
           /\ AwaitRejects(i))
             => LET kind == request[i].kind
                    found == FindOneBinding(kind, request[i].projectID,
                                            request[i].resourceID)
                IN  /\ last'.status = 500
                    /\ UNCHANGED tables
                    /\ ResourceQuantity(kind, request[i].resourceID) = request[i].quantity
                    /\ IF request[i].row = 0
                       THEN found = {}
                       ELSE Bindings(kind)[request[i].row].quantityUsed = request[i].used]_vars

\* C23: for every material and tool, the quantityUsed of the resource's
\* bindings add up to at most the quantity the resource started with, in every
\* state reached by add, edit and delete requests.
CommittedWithinInitial ==
    /\ \A m \in DOMAIN material : SumUsed(MaterialRows(m)) <= initial.material[m]
    /\ \A t \in DOMAIN tool : SumUsed(ToolRows(t)) <= initial.tool[t]

\* C28: every project_material and project_tool row has quantityUsed >= 0 (so
\* no edit request with a negative quantityUsed is answered 200).
NonNegativeUsed ==
    /\ \A i \in DOMAIN projectMaterial : projectMaterial[i].quantityUsed >= 0
    /\ \A i \in DOMAIN projectTool : projectTool[i].quantityUsed >= 0

\* C30: an edit request answered 200 leaves the sum of the resource's quantity
\* and the edited binding's quantityUsed as it was, and changes no other
\* resource, no other binding and no project.
AdjustPairTotal ==
    /\ [][ServedBy("edit", "material") =>
          \A b \in DOMAIN projectMaterial, q \in Quantities :
             LET p == projectMaterial[b].projectID
                 r == projectMaterial[b].materialID
             IN  (last'.status = 200 /\ MaterialEdit(p, r, q)) =>
                    /\ \E i \in DOMAIN projectMaterial :
                          /\ projectMaterial[i].projectID = p
                          /\ projectMaterial[i].materialID = r
                          /\ material'[r].quantity + projectMaterial'[i].quantityUsed
                                = material[r].quantity + projectMaterial[i].quantityUsed
                          /\ DOMAIN projectMaterial' = DOMAIN projectMaterial
                          /\ \A j \in DOMAIN projectMaterial \ {i} :
                                projectMaterial'[j] = projectMaterial[j]
                    /\ \A m \in DOMAIN material \ {r} : material'[m] = material[m]
                    /\ UNCHANGED <<project, tool, projectTool>>]_vars
    /\ [][ServedBy("edit", "tool") =>
          \A b \in DOMAIN projectTool, q \in Quantities :
             LET p == projectTool[b].projectID
                 r == projectTool[b].toolID
             IN  (last'.status = 200 /\ ToolEdit(p, r, q)) =>
                    /\ \E i \in DOMAIN projectTool :
                          /\ projectTool[i].projectID = p
                          /\ projectTool[i].toolID = r
                          /\ tool'[r].quantity + projectTool'[i].quantityUsed
                                = tool[r].quantity + projectTool[i].quantityUsed
                          /\ DOMAIN projectTool' = DOMAIN projectTool
                          /\ \A j \in DOMAIN projectTool \ {i} :
                                projectTool'[j] = projectTool[j]
                    /\ \A t \in DOMAIN tool \ {r} : tool'[t] = tool[t]
                    /\ UNCHANGED <<project, material, projectMaterial>>]_vars

\* C30 witness: a tool edit answered 200 raised the binding of (2, 1) from 1 to
\* 2 and took the tool from 1 to 0: the pair total is 2 before and after.
AdjustPairTotalWitness ==
    /\ last = [op |-> "edit", kind |-> "tool", status |-> 200,
               body |-> {[projectID |-> 2, toolID |-> 1, quantityUsed |-> 2]}]
    /\ projectTool = <<[projectID |-> 2, toolID |-> 1, quantityUsed |-> 2]>>
    /\ initial.tool[1] = 2
    /\ tool[1].quantity = 0
    /\ tool[2].quantity = 2

\* C26: whatever the interleaving of the awaits, once two add requests for one
\* resource have both been answered 200 (two requests served, none suspended,
\* two rows created for the resource), the resource's quantity is its quantity
\* before the two requests minus the two requested quantities.
NoLostUpdate ==
    (request = <<>> /\ nreq = 2) =>
       /\ \A m \in DOMAIN material :
             Len(MaterialRows(m)) = 2 =>
                material[m].quantity = initial.material[m] - SumUsed(MaterialRows(m))
       /\ \A t \in DOMAIN tool :
             Len(ToolRows(t)) = 2 =>
                tool[t].quantity = initial.tool[t] - SumUsed(ToolRows(t))

\* C27: whatever the interleaving of the awaits of the material add requests,
\* project_material holds at most one row for each (projectID, materialID).
SingleBindingInterleaved ==
    \A i \in DOMAIN projectMaterial :
       \A j \in DOMAIN projectMaterial :
          (/\ projectMaterial[j].projectID = projectMaterial[i].projectID
           /\ projectMaterial[j].materialID = projectMaterial[i].materialID) => j = i

\* C29: for every existing project, every task set and every prior value of
\* the flag, a call of checkTasksAndUpdateProject leaves the project's
\* isCompleted with the value PUT /update-status leaves from the same state,
\* namely (every task of the project is completed); in particular a true flag
\* is reset when some task is not completed.
RollupsAgree ==
    [][ServedBy("checkTasksAndUpdateProject", "project") =>
       \A p \in DOMAIN project :
          CheckTasksAndUpdateProject(p) =>
             project'[p].isCompleted = TasksEvery(FindAllTasks(p))]_vars

\* C21: when a request has been answered by the material router and, with the
\* same parameters and from the same stock and bindings, by the tool router,
\* the two answers have the same status, every material has the quantity of
\* the tool of the same id, and the two binding tables hold the same rows.
LedgersAgree ==
    (request # <<>> /\ request[1].pc = "done") =>
       /\ last.status = request[1].status
       /\ \A r \in DOMAIN material : material[r].quantity = tool[r].quantity
       /\ [i \in DOMAIN projectMaterial |->
              <<projectMaterial[i].projectID, projectMaterial[i].materialID,
                projectMaterial[i].quantityUsed>>]
          = [i \in DOMAIN projectTool |->
              <<projectTool[i].projectID, projectTool[i].toolID,
                projectTool[i].quantityUsed>>]

\* C22 (as stated): the quantity of an existing material or tool changes only
\* in a step of the add, edit or delete route of its binding router; every
\* other request, edit-material and edit-tool included, leaves it unchanged.
QuantityLedgerOnly ==
    [][/\ \A m \in DOMAIN material :
             material'[m].quantity # material[m].quantity =>
                (last'.kind = "material" /\ last'.op \in {"add", "edit", "delete"})
       /\ \A t \in DOMAIN tool :
             tool'[t].quantity # tool[t].quantity =>
                (last'.kind = "tool" /\ last'.op \in {"add", "edit", "delete"})]_vars

\* C22 (amended): the quantity of an existing material or tool changes only in
\* a successful add or edit of a binding or in a successful edit-material or
\* edit-tool; edit-material and edit-tool set the quantity of the edited
\* resource to the quantity of the body when they succeed and the body has
\* one, and leave every other quantity, and the edited one when the body has
\* no quantity or the request fails, unchanged.
QuantityFrame ==
    [][/\ \A m \in DOMAIN material :
             material'[m].quantity # material[m].quantity =>
                /\ last'.kind = "material"
                /\ last'.op \in {"add", "edit", "edit-material"}
                /\ last'.status = 200
       /\ \A t \in DOMAIN tool :
             tool'[t].quantity # tool[t].quantity =>
                /\ last'.kind = "tool"
                /\ \/ last'.op \in {"add", "edit"} /\ last'.status = 200
                   \/ last'.op = "edit-tool" /\ last'.status = 201
       /\ ServedBy("edit-material", "material") =>
             \A m \in DOMAIN material, materialName \in BodyNames,
                quantity \in Optional(Quantities), cost \in Optional(Costs) :
                EditMaterial(m, materialName, quantity, cost) =>
                   /\ \A o \in DOMAIN material :
                         IF o = m /\ quantity # {} /\ last'.status = 200
                         THEN material'[o].quantity \in quantity
                         ELSE material'[o].quantity = material[o].quantity
                   /\ UNCHANGED tool
       /\ ServedBy("edit-tool", "tool") =>
             \A t \in DOMAIN tool, toolName \in BodyNames,
                quantity \in Optional(Quantities), cost \in Optional(Costs) :
                EditTool(t, toolName, quantity, cost) =>
                   /\ \A o \in DOMAIN tool :
                         IF o = t /\ quantity # {} /\ last'.status = 201
                         THEN tool'[o].quantity \in quantity
                         ELSE tool'[o].quantity = tool[o].quantity
                   /\ UNCHANGED material]_vars

\* C22 witness: the only request so far was an edit-material of material 1
\* with quantity 0 in the body, answered 200; material 1 went from 2 to 0 and
\* material 2 kept its 2.
QuantityFrameWitness ==
    /\ nreq = 1
    /\ last.op = "edit-material"
    /\ last.status = 200
    /\ initial.material[1] = 2
    /\ material[1].quantity = 0
    /\ material[2].quantity = 2

UniqueTitlePerCreator ==
    /\ [](\A p \in DOMAIN project, q \in DOMAIN project :
             (/\ project[p].creatorID = project[q].creatorID
              /\ project[p].title = project[q].title) => p = q)
    /\ [][ServedBy("add-project", "project") =>
          \A creatorID \in UserIDs, title \in BodyProjectTitles \ {0},
             isCompleted \in BodyFlags :
             (/\ \E p \in DOMAIN project :
                    /\ project[p].creatorID = creatorID
                    /\ project[p].title = title
              /\ AddProject(creatorID, title, isCompleted, TRUE))
                => (last'.status = 409 /\ UNCHANGED project)]_vars

\* C24 witness: two creators each have a project with title 1 and an
\* add-project with a title its creator already uses was answered 409.
UniqueTitlePerCreatorWitness ==
    /\ Len(project) = 2
    /\ project[1].title = project[2].title
    /\ project[1].creatorID # project[2].creatorID
    /\ last.op = "add-project"
    /\ last.status = 409

====
